---- MODULE Spec2Model ----
(***************************************************************************)
(* A model of the vba-obfuscator rewrite engine: the random name pool      *)
(* (vba/rng.py), the identifier and method renaming of vba/model.py with   *)
(* the regular expressions of vba/regex.py, the string literal spans of a  *)
(* CodeLine, the doubly linked line store with File.createMethod and       *)
(* File.dump, StringSplitter (vba/mutators/strings.py) and parseVariables  *)
(* (vba/parsing.py).  Python str values are TLA+ strings; a character is a *)
(* string of length one; an Optional value is None (<<>>) or Some(v).      *)
(***************************************************************************)
EXTENDS Integers, Sequences, FiniteSets, TLC

VARIABLES
    NAMES,          \* rng.NAMES: the pool of issued names per (length, alphabet)
    calls,          \* history: successful randomName calls per key
    ret,            \* history: outcome of the last randomName call
    lines,          \* the CodeLine objects, by identity
    originalLines,  \* File.originalLines: identities in parse order
    methods,        \* File.methods
    op              \* history: the last operation and the texts before it

rngVars == <<NAMES, calls, ret>>
fileVars == <<lines, originalLines, methods, op>>
vars == <<NAMES, calls, ret, lines, originalLines, methods, op>>

(***************************************************************************)
(* Bounds of the model.                                                    *)
(***************************************************************************)
MaxNameLen == 2
MaxCalls == 5
MaxTextLen == 4     \* total length of the texts of the lines of a scope
MaxOps == 2         \* operations applied to one parsed file or line
MaxLiteralLineLen == 6  \* length of the text of a line that holds literals

(***************************************************************************)
(* Python values.                                                          *)
(***************************************************************************)
None == << >>
Some(v) == <<v>>
IsNone(o) == o = << >>
Get(o) == o[1]

Char(s, i) == SubSeq(s, i, i)

Min(a, b) == IF a < b THEN a ELSE b
Max(a, b) == IF a > b THEN a ELSE b

\* Python's text[a:b] with 0-based indices: a negative index counts from the
\* end, and indices are clamped to the text.
PyIndex(i, n) == IF i < 0 THEN Max(i + n, 0) ELSE Min(i, n)
Slice(text, a, b) == SubSeq(text, PyIndex(a, Len(text)) + 1, PyIndex(b, Len(text)))

\* every string of at most n characters of the set chars
RECURSIVE Strs(_, _)
Strs(chars, n) ==
    IF n = 0 THEN {""}
    ELSE {""} \cup {c \o t : c \in chars, t \in Strs(chars, n - 1)}

RECURSIVE Pow(_, _)
Pow(b, e) == IF e = 0 THEN 1 ELSE b * Pow(b, e - 1)

(***************************************************************************)
(* vba/rng.py                                                              *)
(***************************************************************************)
Alphabets == {"ab", "a"}
NameLengths == 1..MaxNameLen
Keys == NameLengths \X Alphabets

\* random.choices(alphabet, k=length) joined: every string of `length`
\* characters drawn from `alphabet` is a possible outcome.
RECURSIVE Choices(_, _)
Choices(alphabet, length) ==
    IF length = 0 THEN {""}
    ELSE {Char(alphabet, i) \o s : i \in 1..Len(alphabet), s \in Choices(alphabet, length - 1)}

\* `name in NAMES` (rng.py line 21) tests the str `name` against the keys of
\* the dict NAMES, which are (int, str) tuples: a tuple never equals a str.
KeyEqualsName(key, name) == FALSE
NameInNAMES(name, dict) == \E key \in DOMAIN dict : KeyEqualsName(key, name)

\* NAMES.get(key) with the set created on first use (lines 11-13)
NamesOf(dict, key) == IF key \in DOMAIN dict THEN dict[key] ELSE {}
WithNames(dict, key, names) ==
    [k \in DOMAIN dict \cup {key} |-> IF k = key THEN names ELSE dict[k]]

MAX(length, alphabet) == Pow(Len(alphabet), length)

randomName(length, alphabet) ==
    LET key == <<length, alphabet>>
        names == NamesOf(NAMES, key)
    IN  /\ calls[key] < MaxCalls
        /\ IF Cardinality(names) >= MAX(length, alphabet)
           THEN /\ NAMES' = WithNames(NAMES, key, names)
                /\ calls' = calls
                /\ ret' = [kind |-> "raise", key |-> key, name |-> "",
                           before |-> names, callsBefore |-> calls[key]]
           ELSE \E name \in Choices(alphabet, length) :
                /\ ~NameInNAMES(name, WithNames(NAMES, key, names))
                /\ NAMES' = WithNames(NAMES, key, names \cup {name})
                /\ calls' = [calls EXCEPT ![key] = @ + 1]
                /\ ret' = [kind |-> "name", key |-> key, name |-> name,
                           before |-> names, callsBefore |-> calls[key]]

(***************************************************************************)
(* Characters and the character classes of Python's re module (ASCII).     *)
(***************************************************************************)
Digits == {"0", "1", "2", "3", "4", "5", "6", "7", "8", "9"}
Letters ==
    {"a", "b", "c", "d", "e", "f", "g", "h", "i", "j", "k", "l", "m",
     "n", "o", "p", "q", "r", "s", "t", "u", "v", "w", "x", "y", "z",
     "A", "B", "C", "D", "E", "F", "G", "H", "I", "J", "K", "L", "M",
     "N", "O", "P", "Q", "R", "S", "T", "U", "V", "W", "X", "Y", "Z"}
IsDigit(c) == c \in Digits                              \* \d
IsWordChar(c) == c \in Letters \cup Digits \cup {"_"}   \* \w
IsSpace(c) == c \in {" ", "\t"}                         \* \s

\* text[i:] starts with s (i is 1-based)
StartsWithAt(text, i, s) ==
    /\ i + Len(s) - 1 <= Len(text)
    /\ SubSeq(text, i, i + Len(s) - 1) = s

\* the index after the run of whitespace that starts at i (greedy \s*)
RECURSIVE SkipSpaces(_, _)
SkipSpaces(text, i) ==
    IF i <= Len(text) /\ IsSpace(Char(text, i)) THEN SkipSpaces(text, i + 1) ELSE i

(***************************************************************************)
(* vba/regex.py: RE_IDENTIFIER_USE, the group pre (one character of the    *)
(* class [\W\D]), %NAME%, the optional group post (one character of the    *)
(* class [\W\D]); substituted by RE_IDENTIFIER_SUB (pre, the new name,     *)
(* post) with re.subn: leftmost non-overlapping matches, scanning from     *)
(* index i.  The class [\W\D] is the union of \W and \D.  Result: the text *)
(* and the number of substitutions.                                        *)
(***************************************************************************)
ClassNotWordOrNotDigit(c) == ~IsWordChar(c) \/ ~IsDigit(c)

RECURSIVE SubnIdentifierUse(_, _, _, _)
SubnIdentifierUse(text, i, NAME, newName) ==
    IF i > Len(text) THEN [s |-> "", n |-> 0]
    ELSE IF ClassNotWordOrNotDigit(Char(text, i)) /\ StartsWithAt(text, i + 1, NAME)
    THEN LET j == i + 1 + Len(NAME)
             hasPost == j <= Len(text) /\ ClassNotWordOrNotDigit(Char(text, j))
             post == IF hasPost THEN Char(text, j) ELSE ""
             rest == SubnIdentifierUse(text, IF hasPost THEN j + 1 ELSE j, NAME, newName)
         IN  [s |-> Char(text, i) \o newName \o post \o rest.s, n |-> rest.n + 1]
    ELSE LET rest == SubnIdentifierUse(text, i + 1, NAME, newName)
         IN  [s |-> Char(text, i) \o rest.s, n |-> rest.n]

(***************************************************************************)
(* vba/regex.py: RE_STRINGS (a double quote, any characters but a double   *)
(* quote, a double quote) with re.finditer: the String objects of the      *)
(* matches in `text` from index i on; startIdx and endIdx are Python's     *)
(* 0-based match.start() and match.end().                                  *)
(***************************************************************************)
Quote == "\""

RECURSIVE NextQuote(_, _)
NextQuote(text, i) ==
    IF i > Len(text) THEN 0
    ELSE IF Char(text, i) = Quote THEN i ELSE NextQuote(text, i + 1)

RECURSIVE FindStrings(_, _)
FindStrings(text, i) ==
    IF i > Len(text) THEN << >>
    ELSE IF Char(text, i) = Quote /\ NextQuote(text, i + 1) # 0
    THEN LET k == NextQuote(text, i + 1)
         IN  <<[value |-> SubSeq(text, i, k), startIdx |-> i - 1, endIdx |-> k,
                newString |-> None]>> \o FindStrings(text, k + 1)
    ELSE FindStrings(text, i + 1)

(***************************************************************************)
(* vba/model.py: CodeLine                                                  *)
(***************************************************************************)
\* CodeLine.parseStrings: scans self.line
parseStrings(cl) == [cl EXCEPT !.strings = FindStrings(cl.line, 1)]

\* CodeLine.__init__
CodeLine(line, number, method, lineType) ==
    parseStrings([line |-> line, number |-> number, method |-> method,
                  lineType |-> lineType, _newLine |-> None,
                  _prev |-> None, _next |-> None, strings |-> << >>])

\* CodeLine.exportLine (getter): `self._newLine if self._newLine else self.line`
ExportLine(cl) ==
    IF ~IsNone(cl._newLine) /\ Get(cl._newLine) # "" THEN Get(cl._newLine) ELSE cl.line

\* CodeLine.exportLine (setter)
SetExportLine(cl, newLine) == [cl EXCEPT !._newLine = Some(newLine)]

\* CodeLine.replaceString(st, repl), st the i-th String of self.strings
replaceString(cl, i, repl) ==
    LET st == cl.strings[i]
        following == {k \in DOMAIN cl.strings : cl.strings[k].startIdx > st.endIdx}
        diff == Len(repl) - Len(st.value)
        text == ExportLine(cl)
        newLine == Slice(text, 0, st.startIdx) \o repl \o Slice(text, st.endIdx, Len(text))
        replaced == [st EXCEPT !.endIdx = st.startIdx + Len(repl), !.newString = Some(repl)]
        Shifted(x) == [x EXCEPT !.startIdx = @ + diff, !.endIdx = @ + diff]
    IN  [SetExportLine(cl, newLine) EXCEPT
            !.strings = [k \in DOMAIN cl.strings |->
                LET x == IF k = i THEN replaced ELSE cl.strings[k]
                IN  IF k \in following THEN Shifted(x) ELSE x]]

\* String.exportString (getter)
ExportString(st) == IF ~IsNone(st.newString) THEN Get(st.newString) ELSE st.value

\* the effective text of every line: what the history variable op records
Texts(ls) == [id \in DOMAIN ls |-> ExportLine(ls[id])]

(***************************************************************************)
(* vba/model.py: replaceIdentifier(oldName, newName, lines); scope is the  *)
(* list of line identities.  Gives the new value of `lines`.               *)
(***************************************************************************)
ReplaceIdentifierIn(cl, oldName, newName) ==
    LET r == SubnIdentifierUse(ExportLine(cl), 1, oldName, newName)
    IN  IF r.n > 0 THEN SetExportLine(cl, r.s) ELSE cl

replaceIdentifier(oldName, newName, scope, ls) ==
    [id \in DOMAIN ls |->
        IF \E k \in DOMAIN scope : scope[k] = id
        THEN ReplaceIdentifierIn(ls[id], oldName, newName)
        ELSE ls[id]]

(***************************************************************************)
(* vba/regex.py: RE_METHOD_CALLS, the group pre (either the start of the   *)
(* text and any whitespace, or at least one whitespace character), then    *)
(* %NAME%, then an opening parenthesis; substituted by RE_METHOD_CALLS_SUB *)
(* (pre, the new name, the parenthesis) with re.subn, scanning from index  *)
(* i: pre is the whitespace run from i, empty only at the start.           *)
(***************************************************************************)
\* a variant that drops the group pre: %NAME% and the parenthesis anywhere
RECURSIVE SubnMethodCallsAnywhere(_, _, _, _)
SubnMethodCallsAnywhere(text, i, NAME, newName) ==
    IF i > Len(text) THEN [s |-> "", n |-> 0]
    ELSE IF StartsWithAt(text, i, NAME \o "(")
    THEN LET rest == SubnMethodCallsAnywhere(text, i + Len(NAME) + 1, NAME, newName)
         IN  [s |-> newName \o "(" \o rest.s, n |-> rest.n + 1]
    ELSE LET rest == SubnMethodCallsAnywhere(text, i + 1, NAME, newName)
         IN  [s |-> Char(text, i) \o rest.s, n |-> rest.n]

RECURSIVE SubnMethodCalls(_, _, _, _)
SubnMethodCalls(text, i, NAME, newName) ==
    IF i > Len(text) THEN [s |-> "", n |-> 0]
    ELSE LET j == SkipSpaces(text, i)
         IN  IF (i = 1 \/ j > i) /\ StartsWithAt(text, j, NAME \o "(")
             THEN LET rest == SubnMethodCalls(text, j + Len(NAME) + 1, NAME, newName)
                  IN  [s |-> SubSeq(text, i, j - 1) \o newName \o "(" \o rest.s,
                       n |-> rest.n + 1]
             ELSE LET rest == SubnMethodCalls(text, i + 1, NAME, newName)
                  IN  [s |-> Char(text, i) \o rest.s, n |-> rest.n]

(***************************************************************************)
(* vba/regex.py: RE_METHOD_REF, anchored at both ends: the group pre (any  *)
(* whitespace), %NAME%, the group post (at least one whitespace character  *)
(* and the rest of the text); substituted by RE_METHOD_REF_SUB (pre, the   *)
(* new name, post) with re.subn.  The text of a line holds no newline.     *)
(***************************************************************************)
SubnMethodRef(text, NAME, newName) ==
    LET j == SkipSpaces(text, 1)
        e == j + Len(NAME)
    IN  IF StartsWithAt(text, j, NAME) /\ e <= Len(text) /\ IsSpace(Char(text, e))
        THEN [s |-> SubSeq(text, 1, j - 1) \o newName \o SubSeq(text, e, Len(text)),
              n |-> 1]
        ELSE [s |-> text, n |-> 0]

(***************************************************************************)
(* vba/model.py: Variable, Parameter, Method                               *)
(***************************************************************************)
Truthy(o) == ~IsNone(o) /\ Get(o) # ""      \* `if x` for an Optional[str]

Variable(name, type) == [name |-> name, type |-> type, newName |-> None]
Parameter(var, ptype) == [var |-> var, ptype |-> ptype]
Method(returnType, modifier, name, type) ==
    [returnType |-> returnType, modifier |-> modifier, name |-> name, type |-> type,
     newName |-> None, parameters |-> << >>, variables |-> << >>]

\* Variable.exportName, Method.exportName (getter)
ExportName(x) == IF Truthy(x.newName) THEN Get(x.newName) ELSE x.name

\* Variable.declaration
VariableDeclaration(var) ==
    IF Truthy(var.type) THEN ExportName(var) \o " As " \o Get(var.type)
    ELSE ExportName(var)

\* Parameter.declaration
ParameterDeclaration(p) ==
    IF p.ptype \in {"Plain", "Typed"} THEN VariableDeclaration(p.var)
    ELSE IF p.ptype = "ByRef" THEN "ByRef " \o ExportName(p.var)
    ELSE "ByVal " \o ExportName(p.var)

\* sep.join(parts)
RECURSIVE Join(_, _)
Join(parts, sep) ==
    IF parts = << >> THEN ""
    ELSE IF Len(parts) = 1 THEN parts[1]
    ELSE parts[1] \o sep \o Join(Tail(parts), sep)

\* Method.signature
Signature(meth) ==
    LET params == Join([k \in DOMAIN meth.parameters |->
                            ParameterDeclaration(meth.parameters[k])], ", ")
    IN  Join((IF IsNone(meth.modifier) THEN << >> ELSE <<Get(meth.modifier)>>)
             \o <<meth.type, ExportName(meth) \o "(" \o params \o ")">>
             \o (IF Truthy(meth.returnType)
                 THEN <<"As " \o Get(meth.returnType)>> ELSE << >>),
             " ")

\* the lines reached from line o by following next
RECURSIVE WalkFrom(_, _)
WalkFrom(ls, o) ==
    IF IsNone(o) THEN << >> ELSE <<Get(o)>> \o WalkFrom(ls, ls[Get(o)]._next)

\* Method.codeLines (codeLinesIter): the lines of method m, walking the
\* store from originalLines[0]
CodeLinesOf(ls, ol, m) ==
    LET OfMethod(id) == ls[id].method = Some(m)
    IN  SelectSeq(WalkFrom(ls, Some(ol[1])), OfMethod)

\* seq[1:-1]
Interior(seq) == IF Len(seq) <= 2 THEN << >> ELSE SubSeq(seq, 2, Len(seq) - 1)

\* Method.firstLine
FirstLine(ls, ol, m) == CodeLinesOf(ls, ol, m)[1]

\* Method.exportName (setter): gives <<methods, lines>>
SetExportName(ms, ls, ol, m, newName) ==
    LET ms1 == [ms EXCEPT ![m].newName = Some(newName)]
    IN  <<ms1, [ls EXCEPT ![FirstLine(ls, ol, m)] = SetExportLine(@, Signature(ms1[m]))]>>

\* Method.renameParameter(param, name), param the k-th parameter of method m:
\* gives <<methods, lines>>
renameParameter(ms, ls, ol, m, k, name) ==
    <<[ms EXCEPT ![m].parameters[k].var.newName = Some(name)],
      replaceIdentifier(ms[m].parameters[k].var.name, name,
                        Interior(CodeLinesOf(ls, ol, m)), ls)>>

\* Method.renameVariable(var, name), var the k-th variable of method m
renameVariable(ms, ls, ol, m, k, name) ==
    <<[ms EXCEPT ![m].variables[k].newName = Some(name)],
      replaceIdentifier(ms[m].variables[k].name, name,
                        Interior(CodeLinesOf(ls, ol, m)), ls)>>

(***************************************************************************)
(* vba/model.py: File.renameMethod(meth, name), meth the m-th method       *)
(***************************************************************************)
\* a variant that visits every line of the store
EveryLine(ms, ls, ol) == DOMAIN ls

\* the lines the two passes visit: m.codeLines[1:-1] for m in self.methods
MethodsInteriorLines(ms, ls, ol) ==
    {id \in DOMAIN ls :
        \E m \in DOMAIN ms :
            \E k \in DOMAIN Interior(CodeLinesOf(ls, ol, m)) :
                Interior(CodeLinesOf(ls, ol, m))[k] = id}

SubstituteCalls(cl, oldName, name) ==
    LET r == SubnMethodCalls(ExportLine(cl), 1, oldName, name)
    IN  IF r.n > 0 THEN SetExportLine(cl, r.s) ELSE cl

SubstituteRef(cl, oldName, name) ==
    LET r == SubnMethodRef(ExportLine(cl), oldName, name)
    IN  IF r.n > 0 THEN SetExportLine(cl, r.s) ELSE cl

renameMethod(ms, ls, ol, m, name) ==
    LET set == SetExportName(ms, ls, ol, m, name)
        visited == MethodsInteriorLines(ms, ls, ol)
        calls1 == [id \in DOMAIN ls |->
                      IF id \in visited
                      THEN SubstituteCalls(set[2][id], ms[m].name, name)
                      ELSE set[2][id]]
        refs == [id \in DOMAIN ls |->
                      IF id \in visited
                      THEN SubstituteRef(calls1[id], ms[m].name, name)
                      ELSE calls1[id]]
    IN  <<set[1], refs>>

NoOp == [kind |-> "none", n |-> 0]

FileIdle ==
    /\ lines = << >>
    /\ originalLines = << >>
    /\ methods = << >>
    /\ op = NoOp

RngIdle ==
    /\ NAMES = [k \in {} |-> {}]
    /\ calls = [k \in Keys |-> 0]
    /\ ret = [kind |-> "none", key |-> <<1, "a">>, name |-> "",
              before |-> {}, callsBefore |-> 0]

RngInit == FileIdle /\ RngIdle

RngNext ==
    \E length \in NameLengths, alphabet \in Alphabets :
        randomName(length, alphabet) /\ UNCHANGED fileVars

SpecRng == RngInit /\ [][RngNext]_vars

(***************************************************************************)
(* C1: no two successful calls made with the same key return equal names:  *)
(* the name a call returns is not a member of the set of names issued for  *)
(* that key before the call.                                               *)
(***************************************************************************)
C1_NamesUnique == ret.kind = "name" => ret.name \notin ret.before

(***************************************************************************)
(* C2: for a key with an alphabet of distinct characters, no call fails    *)
(* before |alphabet|^length calls have succeeded, and the call made after  *)
(* exactly that many successful calls fails (so for (2, "ab") the first    *)
(* four calls succeed and the fifth raises).                               *)
(***************************************************************************)
C2_Capacity ==
    /\ ret.kind = "raise" => ret.callsBefore >= MAX(ret.key[1], ret.key[2])
    /\ ret.kind = "name" => ret.callsBefore < MAX(ret.key[1], ret.key[2])

(***************************************************************************)
(* SpecIdent: replaceIdentifier on a scope of two lines that belong to no  *)
(* file, with every text over IdentChars as input.                         *)
(***************************************************************************)
IdentChars == {"x", "b", "1", ","}
OldNames == {"x"}
NewNames == {"y", "zz"}

IdentInit ==
    /\ RngIdle
    /\ \E t1 \in Strs(IdentChars, MaxTextLen), t2 \in Strs(IdentChars, MaxTextLen) :
        /\ Len(t1) + Len(t2) <= MaxTextLen
        /\ lines = <<CodeLine(t1, -1, None, "Default"), CodeLine(t2, -1, None, "Default")>>
    /\ originalLines = <<1, 2>>
    /\ methods = << >>
    /\ op = NoOp

ReplaceIdentifierCall(oldName, newName) ==
    /\ op.n < MaxOps
    /\ lines' = replaceIdentifier(oldName, newName, originalLines, lines)
    /\ op' = [kind |-> "replaceIdentifier", n |-> op.n + 1, oldName |-> oldName,
              newName |-> newName, scope |-> originalLines, before |-> Texts(lines)]
    /\ UNCHANGED <<originalLines, methods>>

IdentNext ==
    \E oldName \in OldNames, newName \in NewNames :
        ReplaceIdentifierCall(oldName, newName) /\ UNCHANGED rngVars

SpecIdent == IdentInit /\ [][IdentNext]_vars

\* An exact-boundary occurrence of name in text: a start index p such that
\* the character before p and the character after the occurrence are absent
\* or are not identifier characters (letter, digit, underscore).
IsIdentifierChar(c) == c \in Letters \cup Digits \cup {"_"}
ExactOccurrences(text, name) ==
    {p \in 1..Len(text) :
        /\ StartsWithAt(text, p, name)
        /\ p = 1 \/ ~IsIdentifierChar(Char(text, p - 1))
        /\ p + Len(name) > Len(text) \/ ~IsIdentifierChar(Char(text, p + Len(name)))}

\* text from index i on, with the occurrences of name that start at an index
\* of P reading new instead, and every other character kept
RECURSIVE ReplaceAt(_, _, _, _, _)
ReplaceAt(text, i, P, name, new) ==
    IF i > Len(text) THEN ""
    ELSE IF i \in P THEN new \o ReplaceAt(text, i + Len(name), P, name, new)
    ELSE Char(text, i) \o ReplaceAt(text, i + 1, P, name, new)

(***************************************************************************)
(* C3: replaceIdentifier replaces an occurrence of oldName only when       *)
(* neither the character before it nor the character after it is an        *)
(* identifier character: the text of a line after the call is its text     *)
(* before the call with some of the exact-boundary occurrences replaced,   *)
(* and nothing else changed (an occurrence inside a longer identifier      *)
(* stays).                                                                 *)
(***************************************************************************)
C3_OnlyExactBoundary ==
    op.kind = "replaceIdentifier" =>
        \A k \in DOMAIN op.scope :
            LET id == op.scope[k]
                before == op.before[id]
            IN  \E S \in SUBSET ExactOccurrences(before, op.oldName) :
                    ExportLine(lines[id]) = ReplaceAt(before, 1, S, op.oldName, op.newName)

(***************************************************************************)
(* C4: after replaceIdentifier(x, y, S) no line of S holds an exact-       *)
(* boundary occurrence of x (at index 0, at the end of the line, next to   *)
(* another occurrence), every former exact-boundary occurrence reads y,    *)
(* and every other character, the delimiters included, is unchanged.       *)
(***************************************************************************)
C4_AllExactBoundary ==
    op.kind = "replaceIdentifier" =>
        \A k \in DOMAIN op.scope :
            LET id == op.scope[k]
                before == op.before[id]
            IN  /\ ExactOccurrences(ExportLine(lines[id]), op.oldName) = {}
                /\ ExportLine(lines[id]) =
                       ReplaceAt(before, 1, ExactOccurrences(before, op.oldName),
                                 op.oldName, op.newName)

(***************************************************************************)
(* vba/parsing.py: the File that parse builds from the source lines        *)
(*     t1 / Sub Foo(a) / f1 / f2 / End Sub / t2 /                          *)
(*     Private Function Bar(b As Integer) As String / g1 / End Function /  *)
(*     t3                                                                  *)
(* where t1, t2, t3 are module-level lines and f1, f2, g1 interior lines.  *)
(***************************************************************************)
\* the variables parseVariables finds in a declaration line of the pool
DeclaredIn(text) == IF text = "Dim v" THEN <<Variable("v", None)>> ELSE << >>

MethodFoo(f1, f2) ==
    [Method(None, None, "Foo", "Sub") EXCEPT
        !.parameters = <<Parameter(Variable("a", None), "Plain")>>,
        !.variables = DeclaredIn(f1) \o DeclaredIn(f2)]

MethodBar(g1) ==
    [Method(Some("String"), Some("Private"), "Bar", "Function") EXCEPT
        !.parameters = <<Parameter(Variable("b", Some("Integer")), "Typed")>>,
        !.variables = DeclaredIn(g1)]

\* the source lines with the line type and the method parse gives each
SourceLines(t1, f1, f2, t2, g1, t3) ==
    << <<t1, None, "Default">>,
       <<Signature(MethodFoo(f1, f2)), Some(1), "MethodStart">>,
       <<f1, Some(1), "Default">>,
       <<f2, Some(1), "Default">>,
       <<"End Sub", Some(1), "MethodEnd">>,
       <<t2, None, "Default">>,
       <<Signature(MethodBar(g1)), Some(2), "MethodStart">>,
       <<g1, Some(2), "Default">>,
       <<"End Function", Some(2), "MethodEnd">>,
       <<t3, None, "Default">> >>

\* parse: one CodeLine per source line, numbered from 1, each linked to the
\* line before it (codeLine.prev = last)
ParsedLines(src) ==
    [i \in DOMAIN src |->
        [CodeLine(src[i][1], i, src[i][2], src[i][3]) EXCEPT
            !._prev = IF i = 1 THEN None ELSE Some(i - 1),
            !._next = IF i = Len(src) THEN None ELSE Some(i + 1)]]

InteriorPool == {"Result = Foo(1,2)", "Foo = 5", "MyFoo(1)", "v = a + b", "Dim v"}
ModulePool == {"Result = Foo(1,2)", "v = a + b"}
NewMethodNames == {"Zzz"}
NewParameterNames == {"nn"}
NewVariableNames == {"w"}

FileInit ==
    /\ RngIdle
    /\ \E t1 \in ModulePool, f1 \in InteriorPool, f2 \in InteriorPool,
          t2 \in ModulePool, g1 \in InteriorPool, t3 \in ModulePool :
        /\ lines = ParsedLines(SourceLines(t1, f1, f2, t2, g1, t3))
        /\ originalLines = [i \in 1..Len(SourceLines(t1, f1, f2, t2, g1, t3)) |-> i]
        /\ methods = <<MethodFoo(f1, f2), MethodBar(g1)>>
    /\ op = NoOp

RenameMethodCall(m, name) ==
    /\ op.n < MaxOps
    /\ methods' = renameMethod(methods, lines, originalLines, m, name)[1]
    /\ lines' = renameMethod(methods, lines, originalLines, m, name)[2]
    /\ op' = [kind |-> "renameMethod", n |-> op.n + 1, meth |-> m, name |-> name,
              before |-> Texts(lines)]
    /\ UNCHANGED originalLines

RenameParameterCall(m, k, name) ==
    /\ op.n < MaxOps
    /\ methods' = renameParameter(methods, lines, originalLines, m, k, name)[1]
    /\ lines' = renameParameter(methods, lines, originalLines, m, k, name)[2]
    /\ op' = [kind |-> "renameParameter", n |-> op.n + 1, meth |-> m, param |-> k,
              name |-> name, before |-> Texts(lines)]
    /\ UNCHANGED originalLines

RenameVariableCall(m, k, name) ==
    /\ op.n < MaxOps
    /\ methods' = renameVariable(methods, lines, originalLines, m, k, name)[1]
    /\ lines' = renameVariable(methods, lines, originalLines, m, k, name)[2]
    /\ op' = [kind |-> "renameVariable", n |-> op.n + 1, meth |-> m, var |-> k,
              name |-> name, before |-> Texts(lines)]
    /\ UNCHANGED originalLines

FileNext ==
    \/ \E m \in DOMAIN methods, name \in NewMethodNames :
            RenameMethodCall(m, name) /\ UNCHANGED rngVars
    \/ \E m \in DOMAIN methods, name \in NewParameterNames :
            \E k \in DOMAIN methods[m].parameters :
                RenameParameterCall(m, k, name) /\ UNCHANGED rngVars
    \/ \E m \in DOMAIN methods, name \in NewVariableNames :
            \E k \in DOMAIN methods[m].variables :
                RenameVariableCall(m, k, name) /\ UNCHANGED rngVars

SpecFile == FileInit /\ [][FileNext]_vars

(***************************************************************************)
(* C5: once a method and a parameter of it have both been renamed, in      *)
(* either order, the dumped signature line of the method is the signature  *)
(* rendered from the method's data, which names the parameter by its new   *)
(* name, as the interior lines do.                                         *)
(***************************************************************************)
C5_SignatureLineShowsRename ==
    \A m \in DOMAIN methods :
        (/\ ~IsNone(methods[m].newName)
         /\ \E k \in DOMAIN methods[m].parameters :
                ~IsNone(methods[m].parameters[k].var.newName))
        => ExportLine(lines[FirstLine(lines, originalLines, m)]) = Signature(methods[m])

\* The call-form occurrences of name in text (the name followed by an
\* opening parenthesis, at the start of the text or after whitespace) and
\* the bare-reference occurrence (the name after only whitespace, followed
\* by whitespace).
CallOccurrences(text, name) ==
    {p \in 1..Len(text) :
        /\ StartsWithAt(text, p, name \o "(")
        /\ p = 1 \/ IsSpace(Char(text, p - 1))}
RefOccurrences(text, name) ==
    {p \in 1..Len(text) :
        /\ StartsWithAt(text, p, name)
        /\ \A q \in 1..(p - 1) : IsSpace(Char(text, q))
        /\ p + Len(name) <= Len(text) /\ IsSpace(Char(text, p + Len(name)))}
MethodRewritten(text, name, new) ==
    ReplaceAt(text, 1, CallOccurrences(text, name) \cup RefOccurrences(text, name),
              name, new)

\* a line between the signature line and the terminator line of a method
IsInteriorLine(id) == ~IsNone(lines[id].method) /\ lines[id].lineType = "Default"
IsModuleLevelLine(id) == IsNone(lines[id].method)

C7_FooToZzz ==
    (op.kind = "renameMethod" /\ methods[op.meth].name = "Foo" /\ op.name = "Zzz") =>
        \A id \in DOMAIN lines :
            /\ (IsInteriorLine(id) /\ op.before[id] = "Result = Foo(1,2)")
                    => ExportLine(lines[id]) = "Result = Zzz(1,2)"
            /\ (IsInteriorLine(id) /\ lines[id].method = Some(op.meth)
                    /\ op.before[id] = "Foo = 5")
                    => ExportLine(lines[id]) = "Zzz = 5"
            /\ op.before[id] = "MyFoo(1)" => ExportLine(lines[id]) = "MyFoo(1)"

C7_Witness ==
    /\ op.kind = "renameMethod" /\ methods[op.meth].name = "Foo" /\ op.name = "Zzz"
    /\ \E i \in DOMAIN lines, j \in DOMAIN lines, k \in DOMAIN lines :
        /\ IsInteriorLine(i) /\ op.before[i] = "Result = Foo(1,2)"
        /\ ExportLine(lines[i]) = "Result = Zzz(1,2)"
        /\ IsInteriorLine(j) /\ lines[j].method = Some(op.meth)
        /\ op.before[j] = "Foo = 5" /\ ExportLine(lines[j]) = "Zzz = 5"
        /\ IsInteriorLine(k) /\ op.before[k] = "MyFoo(1)"
        /\ ExportLine(lines[k]) = "MyFoo(1)"

(***************************************************************************)
(* SpecStr: replaceString on the literals of one line, with every text     *)
(* over StrChars and the line of the offset-repair scenario as input.      *)
(***************************************************************************)
StrChars == {Quote, "x", " "}
Replacements == {"\"\"", "\"xxx\"", "\"CC\""}
ScenarioLine == "\"AAAA\" &  \"B\""

StrInit ==
    /\ RngIdle
    /\ \E t \in Strs(StrChars, MaxLiteralLineLen) \cup {ScenarioLine} :
        lines = <<CodeLine(t, -1, None, "Default")>>
    /\ originalLines = <<1>>
    /\ methods = << >>
    /\ op = NoOp

ReplaceStringCall(id, i, repl) ==
    /\ op.n < MaxOps
    /\ lines' = [lines EXCEPT ![id] = replaceString(@, i, repl)]
    /\ op' = [kind |-> "replaceString", n |-> op.n + 1, line |-> id, index |-> i,
              repl |-> repl, strings |-> lines[id].strings, before |-> Texts(lines)]
    /\ UNCHANGED <<originalLines, methods>>

StrNext ==
    \E id \in DOMAIN lines, repl \in Replacements :
        \E i \in DOMAIN lines[id].strings :
            ReplaceStringCall(id, i, repl) /\ UNCHANGED rngVars

SpecStr == StrInit /\ [][StrNext]_vars

(***************************************************************************)
(* C8: replaceString(literal, newText) replaces exactly the characters     *)
(* [startIdx, endIdx) of the effective text with newText, sets the         *)
(* literal's endIdx to startIdx + len(newText), and shifts the span of     *)
(* every other literal whose startIdx exceeds the literal's original       *)
(* endIdx by len(newText) minus the replaced length; on the scenario line  *)
(* replacing the first literal by "CC" leaves the second at [8, 11),       *)
(* reading "B".                                                            *)
(***************************************************************************)
C8_ReplaceString ==
    op.kind = "replaceString" =>
        LET old == op.strings
            new == lines[op.line].strings
            st == old[op.index]
            before == op.before[op.line]
            after == ExportLine(lines[op.line])
            delta == Len(op.repl) - (st.endIdx - st.startIdx)
        IN  /\ after = Slice(before, 0, st.startIdx) \o op.repl
                            \o Slice(before, st.endIdx, Len(before))
            /\ new[op.index].endIdx = st.startIdx + Len(op.repl)
            /\ \A k \in DOMAIN old :
                (k # op.index /\ old[k].startIdx > st.endIdx) =>
                    /\ new[k].startIdx = old[k].startIdx + delta
                    /\ new[k].endIdx = old[k].endIdx + delta
            /\ (op.n = 1 /\ before = ScenarioLine /\ op.index = 1 /\ op.repl = "\"CC\"") =>
                    /\ new[2].startIdx = 8 /\ new[2].endIdx = 11
                    /\ Slice(after, new[2].startIdx, new[2].endIdx) = "\"B\""

(***************************************************************************)
(* C9: after any sequence of replaceString calls on the literals of one    *)
(* line, the span of every literal, taken from the current effective text, *)
(* is the literal's current text, and the spans are non-overlapping and in *)
(* strictly increasing order.                                              *)
(***************************************************************************)
C9_SpansValid ==
    \A id \in DOMAIN lines :
        LET sts == lines[id].strings
        IN  /\ \A k \in DOMAIN sts :
                /\ 0 <= sts[k].startIdx /\ sts[k].startIdx < sts[k].endIdx
                /\ sts[k].endIdx <= Len(ExportLine(lines[id]))
                /\ Slice(ExportLine(lines[id]), sts[k].startIdx, sts[k].endIdx)
                        = ExportString(sts[k])
            /\ \A k \in DOMAIN sts : \A l \in DOMAIN sts :
                k < l => sts[k].endIdx <= sts[l].startIdx

(***************************************************************************)
(* SpecScan: the literals of a line enumerated again (parseStrings, as the *)
(* caller does for each mutator) after a rename or a literal replacement   *)
(* has set the override text of the line.                                  *)
(***************************************************************************)
ParseStringsCall(id) ==
    /\ op.n < MaxOps
    /\ lines' = [lines EXCEPT ![id] = parseStrings(@)]
    /\ op' = [kind |-> "parseStrings", n |-> op.n + 1, line |-> id,
              before |-> Texts(lines)]
    /\ UNCHANGED <<originalLines, methods>>

ScanNext ==
    \/ \E id \in DOMAIN lines : ParseStringsCall(id) /\ UNCHANGED rngVars
    \/ \E id \in DOMAIN lines, repl \in Replacements :
            \E i \in DOMAIN lines[id].strings :
                ReplaceStringCall(id, i, repl) /\ UNCHANGED rngVars
    \/ \E oldName \in OldNames, newName \in NewNames :
            ReplaceIdentifierCall(oldName, newName) /\ UNCHANGED rngVars

SpecScan == StrInit /\ [][ScanNext]_vars

(***************************************************************************)
(* C10: whenever the literals of a line are enumerated, the spans returned *)
(* are the double-quote-delimited spans of the line's current effective    *)
(* text, also when the line carries an override text.                      *)
(***************************************************************************)
C10_SpansOfEffectiveText ==
    op.kind = "parseStrings" =>
        lines[op.line].strings = FindStrings(ExportLine(lines[op.line]), 1)

(***************************************************************************)
(* SpecExport: the exportLine setter called on a line, with every text     *)
(* over StrChars as original text and the texts of Overrides, the empty    *)
(* string included, as override text.                                      *)
(***************************************************************************)
Overrides == {"", "x", "\"x\""}

SetExportLineCall(id, newLine) ==
    /\ op.n < MaxOps
    /\ lines' = [lines EXCEPT ![id] = SetExportLine(@, newLine)]
    /\ op' = [kind |-> "setExportLine", n |-> op.n + 1, line |-> id,
              newLine |-> newLine, before |-> Texts(lines),
              original |-> lines[id].line]
    /\ UNCHANGED <<originalLines, methods>>

ExportNext ==
    \E id \in DOMAIN lines, newLine \in Overrides :
        SetExportLineCall(id, newLine) /\ UNCHANGED rngVars

SpecExport == StrInit /\ [][ExportNext]_vars

(***************************************************************************)
(* C11: the effective text of a line is its original text while no         *)
(* override has been set, and is the override text once an override has    *)
(* been set to any string, the empty string included; setting the override *)
(* leaves the original text as it was.                                     *)
(***************************************************************************)
C11_EffectiveText ==
    \A id \in DOMAIN lines :
        /\ IsNone(lines[id]._newLine) => ExportLine(lines[id]) = lines[id].line
        /\ (op.kind = "setExportLine" /\ op.line = id) =>
                /\ ExportLine(lines[id]) = op.newLine
                /\ lines[id].line = op.original

(***************************************************************************)
(* vba/model.py: the doubly linked line store.  The setters of next and    *)
(* prev call each other; ls is the store, self the line assigned to, and   *)
(* the value assigned is None or Some(line).  `is` compares identities.    *)
(***************************************************************************)
RECURSIVE SetNext(_, _, _), SetPrev(_, _, _)
\* a variant of the next setter that leaves the line it unlinks alone: the
\* former successor keeps its link back to self
SetNextKeepOld(ls, self, nxt) ==
    IF nxt = ls[self]._next THEN ls
    ELSE LET l1 == [ls EXCEPT ![self]._next = nxt]
         IN  IF ~IsNone(nxt) THEN SetPrev(l1, Get(nxt), Some(self)) ELSE l1

\* CodeLine.next (setter)
SetNext(ls, self, nxt) ==
    IF nxt = ls[self]._next THEN ls
    ELSE LET old == ls[self]._next
             l1 == [ls EXCEPT ![self]._next = nxt]
             l2 == IF ~IsNone(old) THEN SetPrev(l1, Get(old), None) ELSE l1
         IN  IF ~IsNone(nxt) THEN SetPrev(l2, Get(nxt), Some(self)) ELSE l2

\* CodeLine.prev (setter)
SetPrev(ls, self, prv) ==
    IF prv = ls[self]._prev THEN ls
    ELSE LET old == ls[self]._prev
             l1 == [ls EXCEPT ![self]._prev = prv]
             l2 == IF ~IsNone(old) THEN SetNext(l1, Get(old), None) ELSE l1
         IN  IF ~IsNone(prv) THEN SetNext(l2, Get(prv), Some(self)) ELSE l2

\* CodeLine.first, CodeLine.last
RECURSIVE first(_, _)
first(ls, self) == IF IsNone(ls[self]._prev) THEN self ELSE first(ls, Get(ls[self]._prev))
RECURSIVE last(_, _)
last(ls, self) == IF IsNone(ls[self]._next) THEN self ELSE last(ls, Get(ls[self]._next))

\* The outcome of a store operation: the store it leaves, and whether it
\* raised (the store is then as it was when the exception was thrown).
Done(ls) == [raised |-> FALSE, ls |-> ls]
Raised(ls) == [raised |-> TRUE, ls |-> ls]

\* the loop of insertAfter: `_line.next = line; _line = line; _line.method = meth`
RECURSIVE InsertAfterLoop(_, _, _, _, _)
InsertAfterLoop(ls, _line, newLines, i, meth) ==
    IF i > Len(newLines) THEN <<ls, _line>>
    ELSE InsertAfterLoop([SetNext(ls, _line, Some(newLines[i])) EXCEPT
                              ![newLines[i]].method = meth],
                         newLines[i], newLines, i + 1, meth)

\* CodeLine.insertAfter(newLines).  `meth = _next.method if next is not None
\* else None` tests the builtin function next, which is never None, so
\* _next.method is always read: AttributeError when _next is None.
insertAfter(ls, self, newLines) ==
    LET _next == ls[self]._next
    IN  IF IsNone(_next) THEN Raised(ls)
        ELSE LET r == InsertAfterLoop(ls, self, newLines, 1, ls[Get(_next)].method)
             IN  Done(SetNext(r[1], r[2], _next))

\* the loop of insertBefore: `_line.prev = line; _line = line; _line.method = meth`
RECURSIVE InsertBeforeLoop(_, _, _, _, _)
InsertBeforeLoop(ls, _line, newLines, i, meth) ==
    IF i > Len(newLines) THEN <<ls, _line>>
    ELSE InsertBeforeLoop([SetPrev(ls, _line, Some(newLines[i])) EXCEPT
                               ![newLines[i]].method = meth],
                          newLines[i], newLines, i + 1, meth)

\* CodeLine.insertBefore(newLines): reads _prev.method in the same way
insertBefore(ls, self, newLines) ==
    LET _prev == ls[self]._prev
    IN  IF IsNone(_prev) THEN Raised(ls)
        ELSE LET r == InsertBeforeLoop(ls, self, newLines, 1, ls[Get(_prev)].method)
             IN  Done(SetPrev(r[1], r[2], _prev))

\* CodeLine.replaceWith(newLines)
replaceWith(ls, self, newLines) ==
    IF ~IsNone(ls[self]._next) THEN insertBefore(ls, Get(ls[self]._next), newLines)
    ELSE IF ~IsNone(ls[self]._prev) THEN insertAfter(ls, Get(ls[self]._prev), newLines)
    ELSE Raised(ls)

\* CodeLine.remove()
remove(ls, self) ==
    IF ~IsNone(ls[self]._next) THEN Done(SetPrev(ls, Get(ls[self]._next), ls[self]._prev))
    ELSE IF ~IsNone(ls[self]._prev) THEN Done(SetNext(ls, Get(ls[self]._prev), ls[self]._next))
    ELSE Raised(ls)

\* the objects ls and the new objects more, which get the identities after
\* those of ls
WithObjects(ls, more) ==
    [i \in 1..(Len(ls) + Len(more)) |-> IF i <= Len(ls) THEN ls[i] ELSE more[i - Len(ls)]]

\* File.createMethod(name, type): gives <<methods, lines>>; the two new
\* lines get the identities after those of ls
createMethod(ms, ls, ol, name, type) ==
    LET meth == Method(None, None, name, type)
        m == Len(ms) + 1
        pro == Len(ls) + 1
        epi == Len(ls) + 2
        l1 == WithObjects(ls, <<CodeLine(Signature(meth), -1, Some(m), "MethodStart"),
                                CodeLine("End " \o type, -1, Some(m), "MethodEnd")>>)
        l2 == SetNext(l1, pro, Some(epi))
    IN  <<WithObjects(ms, <<meth>>), SetNext(l2, last(l2, ol[1]), Some(pro))>>

\* a variant that yields the lines once only: a dump() that follows a dump()
\* finds the iterator exhausted
DumpOnce(ls, ol) == IF op.kind = "dump" THEN << >> ELSE WalkFrom(ls, Some(ol[1]))

\* File.dump(): the lines yielded, from originalLines[0] along next
dump(ls, ol) == WalkFrom(ls, Some(ol[1]))

(***************************************************************************)
(* SpecStore: the line store of the parsed file                            *)
(*     v = a + b / Sub Foo(a) / f1 / End Sub / v = a + b                   *)
(* under insertAfter, insertBefore, replaceWith, remove, createMethod,     *)
(* dump, renameParameter and renameVariable; SpecInsert: the same file     *)
(* under insertAfter, insertBefore and replaceWith only.  The lines passed *)
(* to an insertion are new CodeLine objects, which get the identities      *)
(* after those of the store.                                               *)
(***************************************************************************)
MaxNewLines == 2    \* lines passed to one insertAfter, insertBefore or replaceWith
MaxDumps == 2       \* calls of dump() without an operation between them

StorePool == {"v = a + b", "Dim v"}
NewLineTexts == <<"n1", "n2", "n3", "n4">>

StoreSource(f1) ==
    << <<"v = a + b", None, "Default">>,
       <<Signature(MethodFoo(f1, "")), Some(1), "MethodStart">>,
       <<f1, Some(1), "Default">>,
       <<"End Sub", Some(1), "MethodEnd">>,
       <<"v = a + b", None, "Default">> >>

StoreInit ==
    /\ RngIdle
    /\ \E f1 \in StorePool :
        /\ lines = ParsedLines(StoreSource(f1))
        /\ originalLines = [i \in 1..Len(StoreSource(f1)) |-> i]
        /\ methods = <<MethodFoo(f1, "")>>
    /\ op = NoOp

\* k new lines `CodeLine(text)` added to the objects of the model
WithNewLines(ls, k) ==
    WithObjects(ls, [i \in 1..k |-> CodeLine(NewLineTexts[i], -1, None, "Default")])
NewLineIds(ls, k) == [i \in 1..k |-> Len(ls) + i]

\* what the history variable op records of a store operation on line id:
\* the forward sequence through id before the call
StoreOp(kind, id, newLines, r) ==
    [kind |-> kind, n |-> op.n + 1, line |-> id, newLines |-> newLines,
     raised |-> r.raised, before |-> Texts(lines),
     store |-> WalkFrom(lines, Some(first(lines, id)))]

InsertAfterCall(id, k) ==
    LET r == insertAfter(WithNewLines(lines, k), id, NewLineIds(lines, k))
    IN  /\ op.n < MaxOps
        /\ lines' = r.ls
        /\ op' = StoreOp("insertAfter", id, NewLineIds(lines, k), r)
        /\ UNCHANGED <<originalLines, methods>>

InsertBeforeCall(id, k) ==
    LET r == insertBefore(WithNewLines(lines, k), id, NewLineIds(lines, k))
    IN  /\ op.n < MaxOps
        /\ lines' = r.ls
        /\ op' = StoreOp("insertBefore", id, NewLineIds(lines, k), r)
        /\ UNCHANGED <<originalLines, methods>>

ReplaceWithCall(id, k) ==
    LET r == replaceWith(WithNewLines(lines, k), id, NewLineIds(lines, k))
    IN  /\ op.n < MaxOps
        /\ lines' = r.ls
        /\ op' = StoreOp("replaceWith", id, NewLineIds(lines, k), r)
        /\ UNCHANGED <<originalLines, methods>>

RemoveCall(id) ==
    LET r == remove(lines, id)
    IN  /\ op.n < MaxOps
        /\ lines' = r.ls
        /\ op' = StoreOp("remove", id, << >>, r)
        /\ UNCHANGED <<originalLines, methods>>

CreateMethodCall(name, type) ==
    /\ op.n < MaxOps
    /\ methods' = createMethod(methods, lines, originalLines, name, type)[1]
    /\ lines' = createMethod(methods, lines, originalLines, name, type)[2]
    /\ op' = [kind |-> "createMethod", n |-> op.n + 1, name |-> name,
              before |-> Texts(lines)]
    /\ UNCHANGED originalLines

\* a call of dump() consumed to its end: op records the lines yielded with
\* their effective texts, what the call before yielded if that was a dump
\* too, and the last operation that was no dump
DumpCall ==
    /\ op.kind = "dump" => op.dumps < MaxDumps
    /\ op' = [kind |-> "dump", n |-> op.n,
              dumps |-> IF op.kind = "dump" THEN op.dumps + 1 ELSE 1,
              out |-> [i \in DOMAIN dump(lines, originalLines) |->
                          <<dump(lines, originalLines)[i],
                            ExportLine(lines[dump(lines, originalLines)[i]])>>],
              prev |-> IF op.kind = "dump" THEN Some(op.out) ELSE None,
              after |-> IF op.kind = "dump" THEN op.after ELSE op.kind]
    /\ UNCHANGED <<lines, originalLines, methods>>

InsertNext ==
    \/ \E id \in DOMAIN lines, k \in 1..MaxNewLines :
            InsertAfterCall(id, k) /\ UNCHANGED rngVars
    \/ \E id \in DOMAIN lines, k \in 1..MaxNewLines :
            InsertBeforeCall(id, k) /\ UNCHANGED rngVars
    \/ \E id \in DOMAIN lines, k \in 1..MaxNewLines :
            ReplaceWithCall(id, k) /\ UNCHANGED rngVars

StoreNext ==
    \/ InsertNext
    \/ \E id \in DOMAIN lines : RemoveCall(id) /\ UNCHANGED rngVars
    \/ CreateMethodCall("New", "Sub") /\ UNCHANGED rngVars
    \/ DumpCall /\ UNCHANGED rngVars
    \/ \E m \in DOMAIN methods, name \in NewParameterNames :
            \E k \in DOMAIN methods[m].parameters :
                RenameParameterCall(m, k, name) /\ UNCHANGED rngVars
    \/ \E m \in DOMAIN methods, name \in NewVariableNames :
            \E k \in DOMAIN methods[m].variables :
                RenameVariableCall(m, k, name) /\ UNCHANGED rngVars

SpecInsert == StoreInit /\ [][InsertNext]_vars
SpecStore == StoreInit /\ [][StoreNext]_vars

\* SpecDump: dump() called after insertAfter of one line, remove,
\* createMethod and renameParameter, and called again
DumpNext ==
    \/ DumpCall /\ UNCHANGED rngVars
    \/ \E id \in DOMAIN lines : InsertAfterCall(id, 1) /\ UNCHANGED rngVars
    \/ \E id \in DOMAIN lines : RemoveCall(id) /\ UNCHANGED rngVars
    \/ CreateMethodCall("New", "Sub") /\ UNCHANGED rngVars
    \/ \E m \in DOMAIN methods, name \in NewParameterNames :
            \E k \in DOMAIN methods[m].parameters :
                RenameParameterCall(m, k, name) /\ UNCHANGED rngVars

SpecDump == StoreInit /\ [][DumpNext]_vars

\* the position of line id in the sequence seq of lines
IndexOf(seq, id) == CHOOSE i \in DOMAIN seq : seq[i] = id

\* the forward sequence, from its head, that line id is part of
SequenceOf(ls, id) == WalkFrom(ls, Some(first(ls, id)))

(***************************************************************************)
(* C12: L.replaceWith(n1..nk) on a line L that has a neighbour turns the   *)
(* forward sequence prefix, L, suffix into prefix, n1, ..., nk, suffix:    *)
(* the call succeeds, the new lines stand in the order given where L       *)
(* stood, and L is no longer part of the sequence, whether L has a         *)
(* successor or is the last line.                                          *)
(***************************************************************************)
C12_ReplaceWith ==
    (op.kind = "replaceWith" /\ Len(op.store) > 1) =>
        LET pos == IndexOf(op.store, op.line)
        IN  /\ ~op.raised
            /\ SequenceOf(lines, op.newLines[1]) =
                   SubSeq(op.store, 1, pos - 1) \o op.newLines
                       \o SubSeq(op.store, pos + 1, Len(op.store))

(***************************************************************************)
(* C18: for every line L of the store, the head and the tail included,     *)
(* L.insertAfter(n1..nk) succeeds and places n1..nk in the order given     *)
(* immediately after L, and L.insertBefore(n1..nk) succeeds and places     *)
(* them in the order given immediately before L; the other lines keep      *)
(* their order and the forward traversal from the head reaches every line. *)
(***************************************************************************)
C18_InsertAtEveryLine ==
    (op.kind \in {"insertAfter", "insertBefore"} /\ op.store[1] = originalLines[1]) =>
        LET pos == IndexOf(op.store, op.line)
            cut == IF op.kind = "insertAfter" THEN pos ELSE pos - 1
        IN  /\ ~op.raised
            /\ SequenceOf(lines, op.line) =
                   SubSeq(op.store, 1, cut) \o op.newLines
                       \o SubSeq(op.store, cut + 1, Len(op.store))

(***************************************************************************)
(* C20: after any sequence of insertAfter, insertBefore and replaceWith on *)
(* a parsed file, the lines whose back-reference is a Method form one      *)
(* contiguous run of the store that starts with the MethodStart line of    *)
(* the Method and ends with its MethodEnd line, so firstLine is the        *)
(* signature line and codeLines[1:-1] is the run between the two.          *)
(***************************************************************************)
C20_MembershipConsistent ==
    \A m \in DOMAIN methods :
        LET store == SequenceOf(lines, originalLines[1])
            run == {i \in DOMAIN store : lines[store[i]].method = Some(m)}
        IN  /\ run # {}
            /\ \A i \in run, j \in run : \A k \in i..j : k \in run
            /\ \A i \in run :
                /\ (\A j \in run : i <= j) <=> lines[store[i]].lineType = "MethodStart"
                /\ (\A j \in run : j <= i) <=> lines[store[i]].lineType = "MethodEnd"
            /\ lines[FirstLine(lines, originalLines, m)].lineType = "MethodStart"

C14_DumpYieldsStore ==
    op.kind = "dump" =>
        LET ids == [i \in DOMAIN op.out |-> op.out[i][1]]
            Linked(id) == ~IsNone(lines[id]._prev) \/ ~IsNone(lines[id]._next)
        IN  /\ IsNone(lines[ids[1]]._prev)
            /\ IsNone(lines[ids[Len(ids)]]._next)
            /\ ids = WalkFrom(lines, Some(ids[1]))
            /\ \A i \in DOMAIN ids, j \in DOMAIN ids : ids[i] = ids[j] => i = j
            /\ \A id \in DOMAIN lines : Linked(id) => \E i \in DOMAIN ids : ids[i] = id

(***************************************************************************)
(* C19: renameVariable and renameParameter on a method M change the        *)
(* effective text of interior lines of M only: the signature line and the  *)
(* terminator line of M, every line of every other method and every line   *)
(* that belongs to no method keep the effective text they had.             *)
(***************************************************************************)
C19_RenameFrame ==
    op.kind \in {"renameParameter", "renameVariable"} =>
        \A id \in DOMAIN lines :
            (lines[id].lineType # "Default" \/ lines[id].method # Some(op.meth)) =>
                ExportLine(lines[id]) = op.before[id]

(***************************************************************************)
(* SpecAgain: replaceIdentifier(oldName, newName, S) run on the two lines  *)
(* of SpecIdent, and run again with the same arguments immediately after.  *)
(***************************************************************************)
ReplaceIdentifierAgain ==
    /\ op.kind = "replaceIdentifier"
    /\ lines' = replaceIdentifier(op.oldName, op.newName, op.scope, lines)
    /\ op' = [kind |-> "replaceIdentifierAgain", n |-> op.n + 1,
              oldName |-> op.oldName, newName |-> op.newName, scope |-> op.scope,
              before |-> Texts(lines),
              unset |-> {id \in DOMAIN lines : IsNone(lines[id]._newLine)}]
    /\ UNCHANGED <<originalLines, methods>>

AgainNext ==
    \/ \E oldName \in OldNames, newName \in NewNames :
            ReplaceIdentifierCall(oldName, newName) /\ UNCHANGED rngVars
    \/ ReplaceIdentifierAgain /\ UNCHANGED rngVars

SpecAgain == IdentInit /\ [][AgainNext]_vars

(***************************************************************************)
(* C17: replaceIdentifier is idempotent: for a newName that contains no    *)
(* occurrence of oldName, running replaceIdentifier(oldName, newName, S)   *)
(* again immediately after the first run changes the effective text of no  *)
(* line of S, and a line with zero matches keeps its override text unset.  *)
(***************************************************************************)
C17_Idempotent ==
    op.kind = "replaceIdentifierAgain" =>
        \A k \in DOMAIN op.scope :
            LET id == op.scope[k]
            IN  /\ ExportLine(lines[id]) = op.before[id]
                /\ (id \in op.unset
                    /\ SubnIdentifierUse(op.before[id], 1, op.oldName, op.newName).n = 0)
                        => IsNone(lines[id]._newLine)

(***************************************************************************)
(* vba/mutators/strings.py: StringSplitter                                 *)
(***************************************************************************)
ChunkSize == 8      \* the chunk length StringSplitter.process passes

\* a variant that makes one chunk of the whole string
ChunkStringWhole(string, length) == <<string>>

\* StringSplitter.chunkstring: string[0+i:length+i] for i in range(0, len(string), length)
chunkstring(string, length) ==
    [k \in 1..((Len(string) + length - 1) \div length) |->
        Slice(string, 0 + (k - 1) * length, length + (k - 1) * length)]

\* StringSplitter.process(st), st the i-th literal of line cl: the text that
\* replaces the literal
NewStrings(st) ==
    LET val == Slice(st.value, 1, -1)
    IN  Join([k \in DOMAIN chunkstring(val, ChunkSize) |->
                 Quote \o chunkstring(val, ChunkSize)[k] \o Quote], " & ")

process(cl, i) ==
    IF Len(cl.strings[i].value) > 8
    THEN replaceString(cl, i, NewStrings(cl.strings[i]))
    ELSE cl

(***************************************************************************)
(* SpecSplit: StringSplitter applied to the literals of one line that      *)
(* holds one literal, or two literals with the concatenation operator or   *)
(* nothing between them; the inner values are the first characters of      *)
(* InnerText, up to MaxInnerLen of them.                                   *)
(***************************************************************************)
MaxInnerLen == 20

InnerText == "ABCDEFGHIJKLMNOPQRSTUVWXYZ"
Literals == {Quote \o SubSeq(InnerText, 1, len) \o Quote : len \in 0..MaxInnerLen}

SplitInit ==
    /\ RngIdle
    /\ \E a \in Literals, b \in Literals \cup {""}, sep \in {" & ", ""} :
        lines = <<CodeLine("s = " \o a \o (IF b = "" THEN "" ELSE sep \o b),
                           -1, None, "Default")>>
    /\ originalLines = <<1>>
    /\ methods = << >>
    /\ op = NoOp

ProcessCall(id, i) ==
    /\ op.n < MaxOps
    /\ lines' = [lines EXCEPT ![id] = process(@, i)]
    /\ op' = [kind |-> "process", n |-> op.n + 1, line |-> id, index |-> i,
              st |-> lines[id].strings[i], before |-> Texts(lines)]
    /\ UNCHANGED <<originalLines, methods>>

SplitNext ==
    \E id \in DOMAIN lines :
        \E i \in DOMAIN lines[id].strings :
            ProcessCall(id, i) /\ UNCHANGED rngVars

SpecSplit == SplitInit /\ [][SplitNext]_vars

\* the concatenation of the texts of a sequence
RECURSIVE Concat(_)
Concat(parts) == IF parts = << >> THEN "" ELSE parts[1] \o Concat(Tail(parts))

RECURSIVE SkipWord(_, _)
SkipWord(text, i) ==
    IF i <= Len(text) /\ IsWordChar(Char(text, i)) THEN SkipWord(text, i + 1) ELSE i

RECURSIVE SkipDigits(_, _)
SkipDigits(text, i) ==
    IF i <= Len(text) /\ IsDigit(Char(text, i)) THEN SkipDigits(text, i + 1) ELSE i

\* the index after the optional length part of a type that ends before
\* index k: whitespace, a star, whitespace, digits; k if there is none
SkipLength(text, k) ==
    LET s1 == SkipSpaces(text, k)
        s2 == SkipSpaces(text, s1 + 1)
        s3 == SkipDigits(text, s2)
    IN  IF s1 > k /\ StartsWithAt(text, s1, "*") /\ s2 > s1 + 1 /\ s3 > s2
        THEN s3 ELSE k

RECURSIVE FindVariables(_, _)
FindVariables(text, i) ==
    IF i > Len(text) THEN << >>
    ELSE IF ~IsWordChar(Char(text, i)) THEN FindVariables(text, i + 1)
    ELSE LET j == SkipWord(text, i)
             name == SubSeq(text, i, j - 1)
             typed == /\ j + 4 <= Len(text)
                      /\ IsSpace(Char(text, j))
                      /\ StartsWithAt(text, j + 1, "As")
                      /\ IsSpace(Char(text, j + 3))
                      /\ IsWordChar(Char(text, j + 4))
             k == SkipLength(text, SkipWord(text, j + 4))
         IN  IF typed
             THEN <<Variable(name, Some(SubSeq(text, j + 4, k - 1)))>>
                      \o FindVariables(text, k)
             ELSE <<Variable(name, None)>> \o FindVariables(text, j)

(***************************************************************************)
(* vba/parsing.py: parseVariables(variables)                               *)
(***************************************************************************)
\* a variant that finds no type written
NoTypes(vs) == {}

\* types = {var.type for var in vars if var.type != None}
Types(vs) == {vs[k].type : k \in {l \in DOMAIN vs : ~IsNone(vs[l].type)}}

\* the outcome: the list returned, or the exception raised
parseVariables(variables) ==
    LET vs == FindVariables(variables, 1)
        types == Types(vs)
    IN  IF Cardinality(types) > 1 THEN [raised |-> TRUE, vars |-> << >>]
        ELSE IF Cardinality(types) = 1 /\ Len(vs) > 1
        THEN [raised |-> FALSE,
              vars |-> [k \in DOMAIN vs |->
                           [vs[k] EXCEPT !.type = CHOOSE t \in types : TRUE]]]
        ELSE [raised |-> FALSE, vars |-> vs]

(***************************************************************************)
(* SpecVars: parseVariables called on the declaration list of a Dim        *)
(* statement: up to MaxDeclarators names, each written with one of the     *)
(* types of WrittenTypes or with no type, separated by a comma and a space.*)
(***************************************************************************)
MaxDeclarators == 3

DeclaredNames == <<"a", "b", "c", "d">>
WrittenTypes == {"Integer", "String", "String * 10"}

\* the declaration lists: for each name, the type written for it, if any
Declarations ==
    UNION {[1..count -> {None} \cup {Some(t) : t \in WrittenTypes}] :
              count \in 1..MaxDeclarators}

DeclarationText(decl) ==
    Join([k \in DOMAIN decl |->
             DeclaredNames[k] \o (IF IsNone(decl[k]) THEN "" ELSE " As " \o Get(decl[k]))],
         ", ")

ParseVariablesCall(decl) ==
    /\ op.n < MaxOps
    /\ op' = [kind |-> "parseVariables", n |-> op.n + 1, decl |-> decl,
              variables |-> DeclarationText(decl),
              result |-> parseVariables(DeclarationText(decl))]
    /\ UNCHANGED <<lines, originalLines, methods>>

VarsInit == FileIdle /\ RngIdle

VarsNext == \E decl \in Declarations : ParseVariablesCall(decl) /\ UNCHANGED rngVars

SpecVars == VarsInit /\ [][VarsNext]_vars

(***************************************************************************)
(* C16: parseVariables on a declaration list in which exactly one distinct *)
(* type is written gives that type to every variable of the statement      *)
(* (a, b As Integer: a and b, both Integer); on a list in which two or     *)
(* more distinct types are written it fails and returns no variables       *)
(* (a As Integer, b As String).                                            *)
(***************************************************************************)
C16_ParseVariables ==
    op.kind = "parseVariables" =>
        LET written == {op.decl[k] : k \in DOMAIN op.decl} \ {None}
        IN  /\ Cardinality(written) = 1 =>
                /\ ~op.result.raised
                /\ op.result.vars =
                       [k \in DOMAIN op.decl |->
                           Variable(DeclaredNames[k], CHOOSE t \in written : TRUE)]
            /\ Cardinality(written) >= 2 =>
                /\ op.result.raised
                /\ op.result.vars = << >>
            /\ op.variables = "a, b As Integer" =>
                op.result = [raised |-> FALSE,
                             vars |-> <<Variable("a", Some("Integer")),
                                        Variable("b", Some("Integer"))>>]
            /\ op.variables = "a As Integer, b As String" => op.result.raised

C16_Witness ==
    /\ op.kind = "parseVariables"
    /\ op.variables = "a, b As Integer"
    /\ ~op.result.raised
    /\ Len(op.result.vars) = 2
    /\ op.result.vars[1].type = Some("Integer")

(***************************************************************************)
(* SpecLinks: the line store of the parsed file                            *)
(*     Sub Foo(a) / v = a + b / End Sub                                    *)
(* under assignments to next and prev of any line (None or another line),  *)
(* insertAfter and insertBefore of up to MaxNewLines new lines,            *)
(* replaceWith of one new line (which is an insertBefore or insertAfter    *)
(* at a neighbour) and remove.  Assignments can close a cycle, so op       *)
(* records the links before the call and not a walk along them.            *)
(***************************************************************************)
LinksSource ==
    << <<Signature(MethodFoo("v = a + b", "")), Some(1), "MethodStart">>,
       <<"v = a + b", Some(1), "Default">>,
       <<"End Sub", Some(1), "MethodEnd">> >>

LinksInit ==
    /\ RngIdle
    /\ lines = ParsedLines(LinksSource)
    /\ originalLines = [i \in 1..Len(LinksSource) |-> i]
    /\ methods = <<MethodFoo("v = a + b", "")>>
    /\ op = NoOp

\* the values _prev and _next of every line
Links(ls) == [id \in DOMAIN ls |-> [_prev |-> ls[id]._prev, _next |-> ls[id]._next]]

\* what op records of an operation on line id of the store ls (the lines
\* passed to the call included): the links before the call
LinkOp(kind, id, ls, raised) ==
    [kind |-> kind, n |-> op.n + 1, line |-> id, raised |-> raised, links |-> Links(ls)]

\* None or another line than id
OtherLines(id) == {None} \cup {Some(b) : b \in DOMAIN lines \ {id}}

\* `id.next = value`
AssignNext(id, value) ==
    /\ op.n < MaxOps
    /\ lines' = SetNext(lines, id, value)
    /\ op' = LinkOp("next", id, lines, FALSE)
    /\ UNCHANGED <<originalLines, methods>>

\* `id.prev = value`
AssignPrev(id, value) ==
    /\ op.n < MaxOps
    /\ lines' = SetPrev(lines, id, value)
    /\ op' = LinkOp("prev", id, lines, FALSE)
    /\ UNCHANGED <<originalLines, methods>>

LinkInsertAfter(id, k) ==
    LET r == insertAfter(WithNewLines(lines, k), id, NewLineIds(lines, k))
    IN  /\ op.n < MaxOps
        /\ lines' = r.ls
        /\ op' = LinkOp("insertAfter", id, WithNewLines(lines, k), r.raised)
        /\ UNCHANGED <<originalLines, methods>>

LinkInsertBefore(id, k) ==
    LET r == insertBefore(WithNewLines(lines, k), id, NewLineIds(lines, k))
    IN  /\ op.n < MaxOps
        /\ lines' = r.ls
        /\ op' = LinkOp("insertBefore", id, WithNewLines(lines, k), r.raised)
        /\ UNCHANGED <<originalLines, methods>>

LinkReplaceWith(id, k) ==
    LET r == replaceWith(WithNewLines(lines, k), id, NewLineIds(lines, k))
    IN  /\ op.n < MaxOps
        /\ lines' = r.ls
        /\ op' = LinkOp("replaceWith", id, WithNewLines(lines, k), r.raised)
        /\ UNCHANGED <<originalLines, methods>>

LinkRemove(id) ==
    LET r == remove(lines, id)
    IN  /\ op.n < MaxOps
        /\ lines' = r.ls
        /\ op' = LinkOp("remove", id, lines, r.raised)
        /\ UNCHANGED <<originalLines, methods>>

LinksNext ==
    \/ \E id \in DOMAIN lines : \E value \in OtherLines(id) :
            AssignNext(id, value) /\ UNCHANGED rngVars
    \/ \E id \in DOMAIN lines : \E value \in OtherLines(id) :
            AssignPrev(id, value) /\ UNCHANGED rngVars
    \/ \E id \in DOMAIN lines, k \in 1..MaxNewLines :
            LinkInsertAfter(id, k) /\ UNCHANGED rngVars
    \/ \E id \in DOMAIN lines, k \in 1..MaxNewLines :
            LinkInsertBefore(id, k) /\ UNCHANGED rngVars
    \/ \E id \in DOMAIN lines : LinkReplaceWith(id, 1) /\ UNCHANGED rngVars
    \/ \E id \in DOMAIN lines : LinkRemove(id) /\ UNCHANGED rngVars

SpecLinks == LinksInit /\ [][LinksNext]_vars

\* a.next = b implies b.prev = a, and a.prev = c implies c.next = a
Symmetric(ls) ==
    \A a \in DOMAIN ls :
        /\ ~IsNone(ls[a]._next) => ls[Get(ls[a]._next)]._prev = Some(a)
        /\ ~IsNone(ls[a]._prev) => ls[Get(ls[a]._prev)]._next = Some(a)

\* a line a that the last operation detached from its neighbour b (a was
\* linked to b before the call and is not after it) is not the target of
\* the link b had to it
NoStaleLink(before, ls) ==
    \A a \in DOMAIN before, b \in DOMAIN before :
        /\ (before[a]._prev = Some(b) /\ before[b]._next = Some(a)
                /\ ls[a]._prev # Some(b)) => ls[b]._next # Some(a)
        /\ (before[a]._next = Some(b) /\ before[b]._prev = Some(a)
                /\ ls[a]._next # Some(b)) => ls[b]._prev # Some(a)

\* C21: in every state reached by assignments to next and prev,
\* insertAfter, insertBefore, replaceWith and remove, the links are
\* symmetric (a.next = b implies b.prev = a, a.prev = c implies c.next = a),
\* and a line the last operation detached from a neighbour is no longer
\* the target of that neighbour's link; a line remove() took out between
\* two distinct neighbours has neither link left, no line links to it and
\* its former predecessor is linked to its former successor.
C21_LinksSymmetric ==
    /\ Symmetric(lines)
    /\ op.kind \in {"next", "prev", "insertAfter", "insertBefore", "replaceWith", "remove"}
        => NoStaleLink(op.links, lines)
    /\ (op.kind = "remove" /\ ~op.raised
            /\ ~IsNone(op.links[op.line]._prev) /\ ~IsNone(op.links[op.line]._next)
            /\ op.links[op.line]._prev # op.links[op.line]._next)
        => /\ IsNone(lines[op.line]._prev) /\ IsNone(lines[op.line]._next)
           /\ lines[Get(op.links[op.line]._prev)]._next = op.links[op.line]._next
           /\ \A b \in DOMAIN lines :
                lines[b]._prev # Some(op.line) /\ lines[b]._next # Some(op.line)

\* C21 witness: after an earlier operation, remove() took a line out from
\* between two distinct neighbours, which are linked to each other now
C21_Witness ==
    /\ op.kind = "remove" /\ ~op.raised /\ op.n = MaxOps
    /\ ~IsNone(op.links[op.line]._prev) /\ ~IsNone(op.links[op.line]._next)
    /\ op.links[op.line]._prev # op.links[op.line]._next
    /\ lines[Get(op.links[op.line]._prev)]._next = op.links[op.line]._next
    /\ Len(lines) > Len(LinksSource)

====
